---- MODULE Spec2Model ----
(***************************************************************************)
(* Model of src/src/topic_modeling/model_optimizer.py: the ModelOptimizer  *)
(* session object (candidate sweep, coherence table, best topic count,     *)
(* Topic Name Map, manual and automatic topic naming, group aggregation)   *)
(* and the module-level helpers it calls.                                  *)
(*                                                                         *)
(* Python values that the code mixes in one container are tagged: an int   *)
(* is IntVal(n), a str is StrVal(s) with s the sequence of its characters. *)
(* A dict is a function over its key set; a dict whose iteration order     *)
(* matters (models, cvs) is the sequence of its <<key, value>> items in    *)
(* insertion order.                                                        *)
(***************************************************************************)
EXTENDS Integers, Sequences, FiniteSets, TLC

VARIABLES
    pc,                  \* "start" | "ready" | "naming" | "ctor_failed" | "titled"
    topic_numbers_range, \* constructor argument <<lo, hi>>
    coherence,           \* coherence collaborator: score it returns for the model with K topics
    data,                \* self.data, reduced to the grouping column, one entry per row
    models,              \* self.models, items in insertion order
    cvs,                 \* self.cvs, items in insertion order
    topics_num,          \* self.topics_num
    topic_names_dict,    \* self.topic_names_dict
    last_op,             \* the call that returned (or raised) last
    topic_names,         \* argument of the last name_topics_manually call
    prev_dict,           \* self.topic_names_dict when the last naming call was entered
    warned,              \* warnings.warn messages emitted by the last call
    i,                   \* loop variable of name_topics_automatically_gpt3
    exculded,            \* local list of name_topics_automatically_gpt3
    calls,               \* openai.Completion.create invocations of the current/last run
    ret,                 \* what the last get_topic_probs_averaged_over_column call produced
    response,            \* response.choices[0].text handed to _generate_title
    title                \* what _generate_title returned

vars == <<pc, topic_numbers_range, coherence, data, models, cvs, topics_num,
          topic_names_dict, last_op, topic_names, prev_dict, warned, i,
          exculded, calls, ret, response, title>>

----------------------------------------------------------------------------
(* Bounds of the model *)

MaxLo == 2
MaxHi == 4
MaxScore == 2
MaxTopics == 3
MaxKeys == 2
MaxResp == 4
MaxAuto == 1
MaxRows == 5

----------------------------------------------------------------------------
(* Python values *)

IntVal(n) == [t |-> "int", n |-> n, s |-> <<>>]
StrVal(s) == [t |-> "str", n |-> 0, s |-> s]

EmptyDict == [k \in {} |-> 0]

Keys(d) == DOMAIN d

\* range(lo, hi) as a sequence
Range(lo, hi) == [j \in 1..(IF hi > lo THEN hi - lo ELSE 0) |-> lo + j - 1]

\* all sequences over S of length 0..n
SeqsUpTo(S, n) == UNION {[1..m -> S] : m \in 0..n}

Economy == <<"E", "c", "o", "n", "o", "m", "y">>
Health == <<"H", "e", "a", "l", "t", "h">>

----------------------------------------------------------------------------
(* Candidate sweep and selection: get_models, get_coherences,              *)
(* get_best_topics_num                                                     *)

\* Model(num_topics=..., corpus=..., ...): the fitted collaborator object
Model(num_topics) == [num_topics |-> num_topics]

get_models_from_next(rng) ==
    [j \in 1..Len(Range(rng[1] + 1, rng[2])) |->
        <<Range(rng[1] + 1, rng[2])[j], Model(Range(rng[1] + 1, rng[2])[j])>>]

\* {num_topics: Model(num_topics, ...) for num_topics in range(*topic_numbers_range)}
get_models(rng) ==
    [j \in 1..Len(Range(rng[1], rng[2])) |->
        <<Range(rng[1], rng[2])[j], Model(Range(rng[1], rng[2])[j])>>]

\* {num_topics: CoherenceModel(...).get_coherence() for num_topics, model in models.items()}
get_coherences(ms, coh) ==
    [j \in 1..Len(ms) |-> <<ms[j][1], coh[ms[j][2].num_topics]>>]

\* max(iterable, key=f) keeps the first item whose key is strictly greater
\* than every one before it; best is the running maximum, j the next item.
RECURSIVE MaxFrom(_, _, _)
MaxFrom(items, best, j) ==
    IF j > Len(items) THEN items[best][1]
    ELSE IF items[j][2] > items[best][2] THEN MaxFrom(items, j, j + 1)
    ELSE MaxFrom(items, best, j + 1)

RECURSIVE MaxFromLast(_, _, _)
MaxFromLast(items, best, j) ==
    IF j > Len(items) THEN items[best][1]
    ELSE IF items[j][2] >= items[best][2] THEN MaxFromLast(items, j, j + 1)
    ELSE MaxFromLast(items, best, j + 1)

get_best_topics_num_last(c) == MaxFromLast(c, 1, 2)

\* max(cvs, key=cvs.get); raises ValueError on an empty dict (see Construct)
get_best_topics_num(c) == MaxFrom(c, 1, 2)

\* str(n) for n >= 0
Digits == <<"0", "1", "2", "3", "4", "5", "6", "7", "8", "9">>
RECURSIVE Str(_)
Str(n) == IF n < 10 THEN <<Digits[n + 1]>>
          ELSE Str(n \div 10) \o <<Digits[(n % 10) + 1]>>

InitialNamesStr(n) == [k \in 0..(n - 1) |-> StrVal(Str(k))]

\* {i: i for i in range(self.topics_num)}
InitialNames(n) == [k \in 0..(n - 1) |-> IntVal(k)]

\* self.models[self.topics_num]; KeyError when the key is absent
HasModel(ms, k) == \E j \in 1..Len(ms) : ms[j][1] = k
best_model == models[CHOOSE j \in 1..Len(models) : models[j][1] = topics_num][2]

----------------------------------------------------------------------------
(* Title Namer helpers: _generate_prompt, _generate_title                  *)

NL == "\n"
Quote == "\""
Alphabet == {"a", NL, Quote}

\* the prompt is kept as its two variable parts: whose keywords it lists
\* and the titles it asks to differ from
_generate_prompt(topic, excluded) == [topic |-> topic, excluded |-> excluded]

HasNL(s) == \E p \in 1..Len(s) : s[p] = NL
FirstNL(s) == CHOOSE p \in 1..Len(s) : s[p] = NL /\ \A q \in 1..(p - 1) : s[q] # NL

\* text.split("\n")
RECURSIVE Split(_)
Split(s) ==
    IF ~HasNL(s) THEN <<s>>
    ELSE <<SubSeq(s, 1, FirstNL(s) - 1)>> \o Split(SubSeq(s, FirstNL(s) + 1, Len(s)))

IsNotQuote(c) == c # Quote

\* line.replace('"', '')
RemoveQuotes(s) == SelectSeq(s, IsNotQuote)

\* response.choices[0].text.split("\n")[-1].replace('"', '')
_generate_title(text) == RemoveQuotes(Split(text)[Len(Split(text))])

----------------------------------------------------------------------------
(* name_topics_manually                                                    *)

ListArg(l) == [kind |-> "list", items |-> l, map |-> EmptyDict]
DictArg(m) == [kind |-> "dict", items |-> <<>>, map |-> m]

\* {i: topic_names[i] for i in range(len(topic_names))} for a list,
\* topic_names itself for a dict
dict_update(arg) ==
    IF arg.kind = "list"
    THEN [k \in 0..(Len(arg.items) - 1) |-> arg.items[k + 1]]
    ELSE arg.map

MergeKeepOld(d, u) ==
    [k \in Keys(d) \cup Keys(u) |-> IF k \in Keys(d) THEN d[k] ELSE u[k]]

\* updated_dict = deepcopy(d); updated_dict.update(u)
updated_dict(d, u) ==
    [k \in Keys(d) \cup Keys(u) |-> IF k \in Keys(u) THEN u[k] ELSE d[k]]

KeysAccepted(updated, current) == Keys(current) \subseteq Keys(updated)

\* updated_dict.keys() == self.topic_names_dict.keys()
KeysEqual(updated, current) == Keys(updated) = Keys(current)

NotUpdated == "Topic names not updated: incorrect topic names given"

----------------------------------------------------------------------------
(* name_topics_automatically_gpt3: the loop body's two assignments         *)

SetTitleNowhere(d, topic, t) == d

\* self.topic_names_dict[i] = title
SetTitle(d, topic, t) == [k \in Keys(d) \cup {topic} |-> IF k = topic THEN t ELSE d[k]]

AppendNothing(excluded, t) == excluded

\* exculded.append(title)
AppendExcluded(excluded, t) == Append(excluded, t)

----------------------------------------------------------------------------
(* get_topic_probs_df and get_topic_probs_averaged_over_column             *)

Groups == {"PL", "DE", "FR"}

\* best_model.get_topic_probs(encoded_docs): the collaborator's probability
\* of topic t for document d, in units of 1e-4; every cell gets its own
\* value so that the place a cell ends up in stays visible
TopicProb(d, t, n) == d * n + t

\* the Document-Topic Table: row d of self.data followed by its K columns
get_topic_probs_df(rows, n) ==
    [d \in 1..Len(rows) |->
        [group |-> rows[d], probs |-> [t \in 0..(n - 1) |-> TopicProb(d, t, n)]]]

\* modeling_results[column].unique(): values in order of first appearance
RECURSIVE Unique(_)
Unique(col) ==
    IF col = <<>> THEN <<>>
    ELSE LET front == Unique(SubSeq(col, 1, Len(col) - 1))
             x == col[Len(col)]
         IN IF \E j \in 1..Len(front) : front[j] = x THEN front ELSE Append(front, x)

\* modeling_results[modeling_results[column] == column_val]: the row numbers
RowsOf(df, g) == {d \in 1..Len(df) : df[d].group = g}

\* df.shape[0]
Count(df, g) == Cardinality(RowsOf(df, g))

\* modeling_results.groupby(column).count()[0].max()
rows_by_column(df) ==
    CHOOSE m \in 0..Len(df) :
        /\ \E d \in 1..Len(df) : Count(df, df[d].group) = m
        /\ \A d \in 1..Len(df) : Count(df, df[d].group) <= m

\* the members of a set of row numbers in ascending order
RECURSIVE Ascending(_)
Ascending(S) ==
    IF S = {} THEN <<>>
    ELSE LET m == CHOOSE x \in S : \A y \in S : x <= y
         IN <<m>> \o Ascending(S \ {m})

RECURSIVE Concat(_)
Concat(ss) == IF ss = <<>> THEN <<>> ELSE ss[1] \o Concat(Tail(ss))

\* df_tmp.iloc[:, -self.topics_num:].values.flatten(): row-major
Flatten(df, g, n) ==
    LET members == Ascending(RowsOf(df, g))
    IN Concat([m \in 1..Len(members) |->
                  [c \in 1..n |-> df[members[m]].probs[c - 1]]])

\* the loop of lines 97-103 over the column values vals[j..]: the values
\* appended to column_vals_added, and those warned about
RECURSIVE Added(_, _, _)
Added(df, vals, j) ==
    IF j > Len(vals) THEN <<>>
    ELSE IF Count(df, vals[j]) # rows_by_column(df) THEN Added(df, vals, j + 1)
    ELSE <<vals[j]>> \o Added(df, vals, j + 1)

RECURSIVE Missing(_, _, _)
Missing(df, vals, j) ==
    IF j > Len(vals) THEN <<>>
    ELSE IF Count(df, vals[j]) # rows_by_column(df)
         THEN <<vals[j]>> \o Missing(df, vals, j + 1)
    ELSE Missing(df, vals, j + 1)

\* pd.DataFrame(np.vstack(result), index=column_vals_added): default
\* column labels are 0..width-1
DefaultColumns(width) == [c \in 1..width |-> IntVal(c - 1)]

\* [self.topic_names_dict[i] for i in range(self.topics_num)]
NameColumns(d, n) == [c \in 1..n |-> d[c - 1]]

NoTable == [raised |-> FALSE, index |-> <<>>, rows |-> <<>>, columns |-> <<>>,
            show_names |-> FALSE]

\* the value returned by get_topic_probs_averaged_over_column, or
\* raised = TRUE when res.columns = [...] raises ValueError because the new
\* labels are not as many as the columns of res
Aggregated(rows, n, d, show) ==
    LET df == get_topic_probs_df(rows, n)
        added == Added(df, Unique(rows), 1)
        result == [j \in 1..Len(added) |-> Flatten(df, added[j], n)]
        width == Len(result[1])
    IN IF show /\ width # n
       THEN [raised |-> TRUE, index |-> <<>>, rows |-> <<>>, columns |-> <<>>,
             show_names |-> show]
       ELSE [raised |-> FALSE, index |-> added, rows |-> result,
             columns |-> IF show THEN NameColumns(d, n) ELSE DefaultColumns(width),
             show_names |-> show]

----------------------------------------------------------------------------
(* Inputs *)

Scores == 0..MaxScore

\* str arguments a caller passes as topic names
ManualNames == {StrVal(Economy), StrVal(Health)}

\* a list of names, or an index -> name dict
\* (lists up to one name more than the largest K, dicts of up to MaxKeys
\* keys up to the first key beyond the largest K)
ManualArgs ==
    {ListArg(l) : l \in SeqsUpTo(ManualNames, MaxTopics + 1)}
    \cup {DictArg(m) : m \in UNION {[S -> ManualNames] :
              S \in {T \in SUBSET (0..MaxTopics) : Cardinality(T) <= MaxKeys}}}

ShortArgs == {ListArg(l) : l \in SeqsUpTo({StrVal(Economy)}, MaxTopics + 1)}

TwoArgs == {ListArg(<<StrVal(Economy)>>), ListArg(<<StrVal(Economy), StrVal(Health)>>)}

\* texts the completion collaborator may answer with
Responses == SeqsUpTo(Alphabet, MaxResp)
ShortResponses == SeqsUpTo(Alphabet, MaxAuto)

Warning(text, value) == [text |-> text, value |-> value]

----------------------------------------------------------------------------
(* Initial states: the arguments of a constructor call about to be made    *)

NoCall ==
    /\ last_op = "none"
    /\ topic_names = ListArg(<<>>)
    /\ prev_dict = EmptyDict
    /\ warned = <<>>
    /\ i = 0
    /\ exculded = <<>>
    /\ calls = <<>>
    /\ ret = NoTable
    /\ response = <<>>
    /\ title = <<>>

NoObject ==
    /\ models = <<>>
    /\ cvs = <<>>
    /\ topics_num = 0
    /\ topic_names_dict = EmptyDict

\* one candidate per sweep, one row of data
Init ==
    /\ pc = "start"
    /\ \E k \in 1..MaxTopics :
         /\ topic_numbers_range = <<k, k + 1>>
         /\ coherence = [n \in {k} |-> 0]
    /\ data = <<"PL">>
    /\ NoObject
    /\ NoCall

\* any candidate range, any scores
InitSweep ==
    /\ pc = "start"
    /\ \E lo \in 1..MaxLo, hi \in 1..MaxHi :
         /\ topic_numbers_range = <<lo, hi>>
         /\ coherence \in [{n \in 1..MaxHi : lo <= n /\ n < hi} -> Scores]
    /\ data = <<"PL">>
    /\ NoObject
    /\ NoCall

\* any grouping column
InitAgg ==
    /\ pc = "start"
    /\ \E k \in 1..MaxTopics :
         /\ topic_numbers_range = <<k, k + 1>>
         /\ coherence = [n \in {k} |-> 0]
    /\ data \in SeqsUpTo(Groups, MaxRows) \ {<<>>}
    /\ NoObject
    /\ NoCall

\* a completion text about to be turned into a title
InitTitle ==
    /\ pc = "completion"
    /\ topic_numbers_range = <<1, 1>>
    /\ coherence = EmptyDict
    /\ data = <<>>
    /\ NoObject
    /\ last_op = "none"
    /\ topic_names = ListArg(<<>>)
    /\ prev_dict = EmptyDict
    /\ warned = <<>>
    /\ i = 0
    /\ exculded = <<>>
    /\ calls = <<>>
    /\ ret = NoTable
    /\ response \in Responses
    /\ title = <<>>

----------------------------------------------------------------------------
(* Actions *)

\* ModelOptimizer.__init__
Construct ==
    /\ pc = "start"
    /\ LET ms == get_models(topic_numbers_range)
           cs == get_coherences(ms, coherence)
       IN /\ models' = ms
          /\ cvs' = cs
          /\ IF cs = <<>>
             THEN /\ pc' = "ctor_failed"
                  /\ UNCHANGED <<topics_num, topic_names_dict>>
             ELSE /\ pc' = "ready"
                  /\ topics_num' = get_best_topics_num(cs)
                  /\ topic_names_dict' = InitialNames(get_best_topics_num(cs))
    /\ last_op' = "init"
    /\ UNCHANGED <<topic_numbers_range, coherence, data, topic_names, prev_dict,
                   warned, i, exculded, calls, ret, response, title>>

\* ModelOptimizer.name_topics_manually
name_topics_manually(arg) ==
    /\ pc = "ready"
    /\ LET updated == updated_dict(topic_names_dict, dict_update(arg))
       IN IF KeysEqual(updated, topic_names_dict)
          THEN /\ topic_names_dict' = updated
               /\ warned' = <<>>
          ELSE /\ topic_names_dict' = topic_names_dict
               /\ warned' = <<Warning(NotUpdated, "")>>
    /\ topic_names' = arg
    /\ prev_dict' = topic_names_dict
    /\ last_op' = "manual"
    /\ i' = 0
    /\ exculded' = <<>>
    /\ calls' = <<>>
    /\ ret' = NoTable
    /\ UNCHANGED <<pc, topic_numbers_range, coherence, data, models, cvs,
                   topics_num, response, title>>

\* ModelOptimizer.name_topics_automatically_gpt3, lines 155-157: up to the loop
name_topics_automatically_gpt3 ==
    /\ pc = "ready"
    /\ pc' = "naming"
    /\ i' = 0
    /\ exculded' = <<>>
    /\ calls' = <<>>
    /\ prev_dict' = topic_names_dict
    /\ topic_names' = ListArg(<<>>)
    /\ warned' = <<>>
    /\ ret' = NoTable
    /\ last_op' = "auto"
    /\ UNCHANGED <<topic_numbers_range, coherence, data, models, cvs, topics_num,
                   topic_names_dict, response, title>>

\* one iteration of the loop, lines 158-164, the completion answering with
\* text; leaving the loop after the last topic returns to the caller
NextTitle(text) ==
    /\ pc = "naming"
    /\ i < topics_num
    /\ LET prompt == _generate_prompt(i, exculded)
           t == StrVal(_generate_title(text))
       IN /\ calls' = Append(calls, [prompt |-> prompt, dict |-> topic_names_dict,
                                     failed |-> FALSE, title |-> t])
          /\ topic_names_dict' = SetTitle(topic_names_dict, i, t)
          /\ exculded' = AppendExcluded(exculded, t)
    /\ i' = i + 1
    /\ IF i + 1 = topics_num
       THEN pc' = "ready" /\ last_op' = "auto_done"
       ELSE UNCHANGED <<pc, last_op>>
    /\ UNCHANGED <<topic_numbers_range, coherence, data, models, cvs, topics_num,
                   topic_names, prev_dict, warned, ret, response, title>>

\* one iteration of the loop in which openai.Completion.create raises: nothing
\* in lines 149-164 catches it
CompletionFails ==
    /\ pc = "naming"
    /\ i < topics_num
    /\ calls' = Append(calls, [prompt |-> _generate_prompt(i, exculded),
                               dict |-> topic_names_dict,
                               failed |-> TRUE, title |-> StrVal(<<>>)])
    /\ pc' = "ready"
    /\ last_op' = "auto_failed"
    /\ UNCHANGED <<topic_numbers_range, coherence, data, models, cvs, topics_num,
                   topic_names_dict, topic_names, prev_dict, warned, i, exculded,
                   ret, response, title>>

\* ModelOptimizer.get_topic_probs_averaged_over_column(column, show_names)
get_topic_probs_averaged_over_column(show_names) ==
    /\ pc = "ready"
    /\ LET df == get_topic_probs_df(data, topics_num)
           missing == Missing(df, Unique(data), 1)
       IN warned' = [j \in 1..Len(missing) |-> Warning("has missing rows!", missing[j])]
    /\ ret' = Aggregated(data, topics_num, topic_names_dict, show_names)
    /\ last_op' = "aggregate"
    /\ topic_names' = ListArg(<<>>)
    /\ prev_dict' = topic_names_dict
    /\ i' = 0
    /\ exculded' = <<>>
    /\ calls' = <<>>
    /\ UNCHANGED <<pc, topic_numbers_range, coherence, data, models, cvs,
                   topics_num, topic_names_dict, response, title>>

\* _generate_title applied to the completion's text
GenerateTitle ==
    /\ pc = "completion"
    /\ title' = _generate_title(response)
    /\ pc' = "titled"
    /\ UNCHANGED <<topic_numbers_range, coherence, data, models, cvs, topics_num,
                   topic_names_dict, last_op, topic_names, prev_dict, warned, i,
                   exculded, calls, ret, response>>

ManualCall == \E arg \in ManualArgs : name_topics_manually(arg)
ShortManualCall == \E arg \in ShortArgs : name_topics_manually(arg)
TwoManualCall == \E arg \in TwoArgs : name_topics_manually(arg)
CompletionAnswers == \E text \in ShortResponses : NextTitle(text)
AggregateCall == \E show_names \in BOOLEAN : get_topic_probs_averaged_over_column(show_names)

Next ==
    \/ Construct
    \/ ShortManualCall
    \/ name_topics_automatically_gpt3
    \/ CompletionAnswers
    \/ CompletionFails
    \/ AggregateCall

Spec == Init /\ [][Next]_vars

\* the constructor alone, over every candidate range and score table
NextSweep == Construct
SpecSweep == InitSweep /\ [][NextSweep]_vars

\* manual naming with every shape of argument
NextManual == Construct \/ ManualCall
SpecManual == Init /\ [][NextManual]_vars

\* aggregation over every grouping column, with default and given names
NextAgg == Construct \/ TwoManualCall \/ AggregateCall
SpecAgg == InitAgg /\ [][NextAgg]_vars

\* _generate_title over every completion text
NextTitleOnly == GenerateTitle
SpecTitle == InitTitle /\ [][NextTitleOnly]_vars

----------------------------------------------------------------------------
(* Properties of the sweep and the selection (SpecSweep)                   *)

Constructed == pc = "ready"

CvsKeys == {cvs[j][1] : j \in 1..Len(cvs)}
ScoreOf(k) == cvs[CHOOSE j \in 1..Len(cvs) : cvs[j][1] = k][2]

\* C1: for a non-empty Coherence Table the selected K is a key of the table,
\* no entry scores higher than it, and among the entries with the maximal
\* score it is the smallest K.
C1_BestIsSmallestMax ==
    (Constructed /\ cvs # <<>>) =>
        /\ topics_num \in CvsKeys
        /\ \A k \in CvsKeys : ScoreOf(k) <= ScoreOf(topics_num)
        /\ \A k \in CvsKeys : ScoreOf(k) = ScoreOf(topics_num) => topics_num <= k

\* a table of three entries in which the last two tie for the maximum
C1_Witness ==
    /\ Constructed
    /\ Len(cvs) = 3
    /\ cvs[2][2] = cvs[3][2]
    /\ cvs[1][2] < cvs[2][2]
    /\ topics_num = cvs[2][1]

Candidates == {n \in 1..(MaxHi + 1) :
                 topic_numbers_range[1] <= n /\ n < topic_numbers_range[2]}

\* C8: once the constructor has run, models holds exactly one model for
\* every K of [lo, hi), in ascending K; cvs holds one score for each of
\* them in the same order; and when a K was selected it is one of these
\* keys, so that best_model is a model of the sweep.
C8_SweepKeys ==
    (pc \in {"ready", "ctor_failed"}) =>
        /\ {models[j][1] : j \in 1..Len(models)} = Candidates
        /\ Len(models) = Cardinality(Candidates)
        /\ \A j \in 1..Len(models) : models[j][2].num_topics = models[j][1]
        /\ \A j \in 1..Len(models), h \in 1..Len(models) :
               j < h => models[j][1] < models[h][1]
        /\ Len(cvs) = Len(models)
        /\ \A j \in 1..Len(cvs) : cvs[j][1] = models[j][1]
        /\ Constructed =>
               /\ topics_num \in Candidates
               /\ HasModel(models, topics_num)
               /\ best_model.num_topics = topics_num

\* three candidates, the middle one selected
C8_Witness ==
    /\ Constructed
    /\ Len(models) = 3
    /\ topics_num = models[2][1]
    /\ best_model = models[2][2]

----------------------------------------------------------------------------
(* Properties of manual naming (SpecManual)                                *)

\* the update as the caller gave it: its keys and the name under each key
GivenKeys ==
    IF topic_names.kind = "list" THEN 0..(Len(topic_names.items) - 1)
    ELSE DOMAIN topic_names.map
GivenName(k) ==
    IF topic_names.kind = "list" THEN topic_names.items[k + 1]
    ELSE topic_names.map[k]

\* C2: a manual update is committed if and only if the key set of the
\* current map merged with the update equals the current key set; a
\* committed update replaces exactly the given keys, a discarded one leaves
\* the map as it was and a warning is emitted; an update with any key
\* outside 0..K-1 changes no entry.
C2_CommitIffKeysKept ==
    (last_op = "manual") =>
        /\ (Keys(prev_dict) \cup GivenKeys = Keys(prev_dict)) =>
               /\ topic_names_dict =
                      [k \in Keys(prev_dict) |->
                          IF k \in GivenKeys THEN GivenName(k) ELSE prev_dict[k]]
               /\ warned = <<>>
        /\ (Keys(prev_dict) \cup GivenKeys # Keys(prev_dict)) =>
               /\ topic_names_dict = prev_dict
               /\ Len(warned) = 1
        /\ (\E k \in GivenKeys : k \notin 0..(topics_num - 1)) =>
               topic_names_dict = prev_dict

\* a list longer than K whose first names would have changed valid entries
C2_Witness ==
    /\ last_op = "manual"
    /\ topic_names.kind = "list"
    /\ Len(topic_names.items) = topics_num + 1
    /\ topics_num = 3
    /\ prev_dict[0] # topic_names.items[1]
    /\ topic_names_dict = prev_dict
    /\ Len(warned) = 1

\* C9 as amended: right after construction the Topic Name Map maps every
\* topic index to that index itself, an integer; the partial update
\* {0: "Economy", 1: "Health"} on K = 3 then leaves 2 mapped to the integer 2.
C9_InitialNamesAreIndices ==
    /\ (Constructed /\ last_op = "init") =>
           topic_names_dict = [k \in 0..(topics_num - 1) |-> IntVal(k)]
    /\ (/\ last_op = "manual"
        /\ topics_num = 3
        /\ prev_dict = [k \in 0..2 |-> IntVal(k)]
        /\ topic_names = DictArg(0 :> StrVal(Economy) @@ 1 :> StrVal(Health))) =>
           topic_names_dict =
               (0 :> StrVal(Economy) @@ 1 :> StrVal(Health) @@ 2 :> IntVal(2))

C9_Witness ==
    /\ last_op = "manual"
    /\ topics_num = 3
    /\ prev_dict = [k \in 0..2 |-> IntVal(k)]
    /\ topic_names = DictArg(0 :> StrVal(Economy) @@ 1 :> StrVal(Health))
    /\ topic_names_dict[0] = StrVal(Economy)
    /\ topic_names_dict[2] = IntVal(2)

\* C9 as stated: right after construction the Topic Name Map maps every
\* topic index to the index as a string, and the partial update
\* {0: "Economy", 1: "Health"} on K = 3 leaves 2 mapped to "2".
C9_InitialNamesAreStrings ==
    /\ (Constructed /\ last_op = "init") =>
           topic_names_dict = [k \in 0..(topics_num - 1) |-> StrVal(Str(k))]
    /\ (/\ last_op = "manual"
        /\ topics_num = 3
        /\ prev_dict = InitialNames(3)
        /\ topic_names = DictArg(0 :> StrVal(Economy) @@ 1 :> StrVal(Health))) =>
           topic_names_dict =
               (0 :> StrVal(Economy) @@ 1 :> StrVal(Health) @@ 2 :> StrVal(Str(2)))

----------------------------------------------------------------------------
(* Properties of the naming life cycle (Spec)                              *)

\* C3: after construction, whatever naming calls were made and however the
\* completion collaborator answered, the key set of the Topic Name Map is
\* {0, ..., K-1}.
C3_KeySetFixed ==
    (pc \in {"ready", "naming"}) => Keys(topic_names_dict) = 0..(topics_num - 1)

\* a discarded manual update after an automatic run and a committed one
C3_Witness ==
    /\ last_op = "manual"
    /\ Len(warned) = 1
    /\ topics_num = 3
    /\ topic_names_dict[0] = StrVal(Economy)
    /\ topic_names_dict[1] = StrVal(<<"a">>)
    /\ topic_names_dict[2] = StrVal(<<>>)

\* C4: the calls of one run are for topics 0, 1, 2, ... in this order; the
\* excluded titles of the call for topic i are the titles returned for
\* topics 0..i-1 of the same run, which at that moment are already stored
\* under their keys; a run that completes has made exactly K calls.
C4_CallsInOrder ==
    /\ \A j \in 1..Len(calls) :
           /\ calls[j].prompt.topic = j - 1
           /\ calls[j].prompt.excluded = [m \in 1..(j - 1) |-> calls[m].title]
           /\ \A m \in 1..(j - 1) : calls[j].dict[m - 1] = calls[m].title
    /\ (last_op = "auto_done") =>
           /\ Len(calls) = topics_num
           /\ \A j \in 1..Len(calls) : ~calls[j].failed
           /\ \A k \in 0..(topics_num - 1) : topic_names_dict[k] = calls[k + 1].title

\* a completed run over three topics with two different titles
C4_Witness ==
    /\ last_op = "auto_done"
    /\ topics_num = 3
    /\ Len(calls) = 3
    /\ calls[1].title # calls[2].title
    /\ calls[3].prompt.excluded = <<calls[1].title, calls[2].title>>

\* C10: when the completion fails on the call for topic i, the run ends
\* there: the failing call is the last one, control is back at the caller,
\* topics 0..i-1 hold the titles generated in this run and topics i..K-1
\* hold the labels they had when the run began.
C10_FailureKeepsPartialTitles ==
    (last_op = "auto_failed") =>
        LET n == Len(calls)
        IN /\ n >= 1
           /\ calls[n].failed
           /\ \A j \in 1..(n - 1) : ~calls[j].failed
           /\ calls[n].prompt.topic = n - 1
           /\ pc = "ready"
           /\ \A k \in 0..(topics_num - 1) :
                  topic_names_dict[k] =
                      IF k < n - 1 THEN calls[k + 1].title ELSE prev_dict[k]

\* a failure on the third topic after two titles that differ from the old labels
C10_Witness ==
    /\ last_op = "auto_failed"
    /\ Len(calls) = 3
    /\ topic_names_dict[0] # prev_dict[0]
    /\ topic_names_dict[1] # prev_dict[1]
    /\ topic_names_dict[2] = prev_dict[2]
    /\ prev_dict[2] = StrVal(Economy)

----------------------------------------------------------------------------
(* Properties of _generate_title (SpecTitle)                               *)

IsNonEmpty(line) == line # <<>>
NonEmptyLines(text) == SelectSeq(Split(text), IsNonEmpty)

\* line.strip('"'): the quote characters at both ends removed
RECURSIVE StripQuotes(_)
StripQuotes(line) ==
    IF line = <<>> THEN line
    ELSE IF Head(line) = Quote THEN StripQuotes(Tail(line))
    ELSE IF line[Len(line)] = Quote THEN StripQuotes(SubSeq(line, 1, Len(line) - 1))
    ELSE line

\* C6: the title made from a completion text is the last non-empty line
\* of the text with the quote characters around it stripped.
C6_TitleIsLastNonEmptyLine ==
    (pc = "titled" /\ NonEmptyLines(response) # <<>>) =>
        title = StripQuotes(NonEmptyLines(response)[Len(NonEmptyLines(response))])

----------------------------------------------------------------------------
(* Properties of get_topic_probs_averaged_over_column (SpecAgg)            *)

GroupRows(g) == {d \in 1..Len(data) : data[d] = g}
GroupSize(g) == Cardinality(GroupRows(g))
Present == {data[d] : d \in 1..Len(data)}
MaxGroupSize == CHOOSE m \in 1..Len(data) :
                    /\ \E g \in Present : GroupSize(g) = m
                    /\ \A g \in Present : GroupSize(g) <= m
FullGroups == {g \in Present : GroupSize(g) = MaxGroupSize}

\* C5: the call outputs one row for each group of maximal size and none for
\* any other group; each excluded group is named in one warning; each row
\* is its group's K probability columns flattened member row by member row,
\* so its width is (maximal group size) x K.
C5_OneRowPerFullGroup ==
    (last_op = "aggregate") =>
        /\ ~ret.raised
        /\ {ret.index[j] : j \in 1..Len(ret.index)} = FullGroups
        /\ Len(ret.index) = Cardinality(FullGroups)
        /\ Len(ret.rows) = Len(ret.index)
        /\ \A j \in 1..Len(ret.rows) :
               /\ Len(ret.rows[j]) = MaxGroupSize * topics_num
               /\ \A m \in 1..MaxGroupSize, t \in 0..(topics_num - 1) :
                      ret.rows[j][(m - 1) * topics_num + t + 1] =
                          TopicProb(Ascending(GroupRows(ret.index[j]))[m], t, topics_num)
        /\ {warned[j].value : j \in 1..Len(warned)} = Present \ FullGroups
        /\ Len(warned) = Cardinality(Present \ FullGroups)

\* C7: a call with show_names set returns the table with its column headers
\* taken from the values of the Topic Name Map, whatever the size of the
\* retained groups; without show_names the headers are 0, 1, 2, ...
C7_HeadersFromNames ==
    (last_op = "aggregate") =>
        /\ ~ret.raised
        /\ Len(ret.columns) = MaxGroupSize * topics_num
        /\ ret.show_names =>
               \A c \in 1..Len(ret.columns) :
                   \E k \in 0..(topics_num - 1) : ret.columns[c] = topic_names_dict[k]
        /\ ~ret.show_names =>
               \A c \in 1..Len(ret.columns) : ret.columns[c] = IntVal(c - 1)

====
